---- MODULE Spec2Model ----
(***************************************************************************)
(* StandardCommandPool (vulkano/src/command_buffer/pool/standard.rs).      *)
(*                                                                         *)
(* One Arc<StandardCommandPool> (the registry) with its per_thread map of  *)
(* Weak<StandardCommandPoolPerThread>, the per-thread sub-pools with their *)
(* two SegQueue recycle queues and their Mutex<UnsafeCommandPool>, and the *)
(* StandardCommandPoolBuilder / StandardCommandPoolAlloc handles.          *)
(* Arc strong counts are explicit counters; a Weak resolves iff the strong *)
(* count of its target is positive.  allocate() is split at every point    *)
(* where another thread can observe or interfere (lock acquisitions, each  *)
(* Weak::upgrade, each SegQueue pop, the native call); Drop takes no lock  *)
(* and is one step.                                                        *)
(***************************************************************************)
EXTENDS Integers, Sequences, FiniteSets, TLC

NumThreads == 2
MaxPools   == 2
MaxCmds    == 2
MaxCount   == 2

Threads  == 1..NumThreads
SubPools == 1..MaxPools
Cmds     == 1..MaxCmds
Levels   == {"Primary", "Secondary"}

VARIABLES
    poolStrong,      \* strong count of the Arc<StandardCommandPool>
    callerRefs,      \* callerRefs[t] = 1 iff thread t owns an Arc<StandardCommandPool>
    per_thread,      \* the HashMap: thread id -> sub-pool the Weak points to, 0 = no entry
    perThreadLock,   \* holder of the per_thread Mutex, 0 = free
    subStrong,       \* strong count of each Arc<StandardCommandPoolPerThread>
    subOwner,        \* thread that created the sub-pool, 0 = not created yet
    poolLock,        \* holder of each sub-pool's Mutex<UnsafeCommandPool>, 0 = free
    available_primary_command_buffers,
    available_secondary_command_buffers,
    cmdLevel,        \* level each live native handle was allocated with
    cmdPool,         \* native pool (sub-pool) each native handle belongs to, 0 = not live
    handles,         \* handles owned by callers
    pc,              \* position of each thread
    level,           \* allocate(): argument level
    requested,       \* allocate(): argument command_buffer_count as passed
    command_buffer_count, \* allocate(): the mutable local
    toVisit,         \* allocate(): keys hashmap.retain has not visited yet
    per_thread_local,\* allocate(): the local Arc per_thread, 0 = none
    output,          \* allocate(): the local Vec output
    err,             \* allocate(): an OomError is being propagated
    nativeCreateCalled, \* allocate(): the call has called UnsafeCommandPool::new
    nativeAllocCalled,  \* allocate(): the call has called allocate_command_buffers
    nativeAllocCount,   \* allocate(): the count it passed to allocate_command_buffers
    borrowed,        \* queue_family(): native handle of the handle being queried, 0 = none
    droppedBy,       \* history: thread that last dropped the handle holding this native handle
    lone,            \* history: native handle pushed on an empty queue of a surviving sub-pool
    expect,          \* history: lone handle an allocate(level, 1) found at lookup
    reclaimedBy,     \* history: what dropped the last strong reference to the registry
    staleAtLock,     \* history: keys whose Weak no longer resolved when the call took the map lock
    existingAtLookup,\* history: content of `existing` when the call resolved its sub-pool
    created,         \* history: a sub-pool has been created for the thread before
    unwound          \* history: native handles of the builders the failing call has dropped

vars == << poolStrong, callerRefs, per_thread, perThreadLock, subStrong, subOwner,
           poolLock, available_primary_command_buffers,
           available_secondary_command_buffers, cmdLevel,
           cmdPool, handles, pc, level, requested, command_buffer_count, toVisit,
           per_thread_local, output, err, nativeCreateCalled,
           nativeAllocCalled, nativeAllocCount, borrowed, droppedBy, lone, expect,
           reclaimedBy, staleAtLock, existingAtLookup, created, unwound >>

historyVars  == << staleAtLock, existingAtLookup, created, unwound >>
registryVars == << poolStrong, callerRefs, per_thread, perThreadLock >>
subPoolVars  == << subStrong, subOwner, poolLock >>
queueVars    == << available_primary_command_buffers,
                   available_secondary_command_buffers, lone >>
nativeVars   == << cmdLevel, cmdPool >>
argVars      == << level, requested >>
callFlagVars == << nativeCreateCalled, nativeAllocCalled, nativeAllocCount >>

HandleRecs == [cmd: Cmds, pool: SubPools, level: Levels, builder: BOOLEAN, thread: Threads]

\* Elements of a sequence.
Range(s) == {s[i] : i \in 1..Len(s)}

\* Handles that exist: those callers own and the builders in some output Vec.
AllHandles == handles \cup UNION {Range(output[t]) : t \in Threads}

(***************************************************************************)
(* Arc / Weak                                                              *)
(***************************************************************************)

\* Arc::clone: one more strong reference.
ArcClone(n) == n + 1

\* Dropping an Arc: one strong reference less; the value is dropped at 0.
ArcDrop(n) == n - 1

\* Weak::upgrade on the weak reference to the registry (pool_weak.upgrade()).
PoolWeakResolves == poolStrong > 0

\* Faulty variant: a Weak that is still in the map is taken to resolve.
WeakResolvesStale(sp) == sp # 0

\* w.upgrade().is_some() for a map entry pointing at sub-pool sp.
WeakResolves(sp) == sp # 0 /\ subStrong[sp] > 0

\* Faulty variant: the map stores a clone of the Arc itself.
DowngradeStoresStrong(strong) == strong + 1

\* Arc::downgrade(&pt): the map stores a Weak, the strong count is unchanged.
Downgrade(strong) == strong

\* Faulty variant: a handle that holds no strong reference to the registry.
PoolParentNotCloned(n) == n

\* pool_parent: self.clone() in a new handle.
PoolParentClone(n) == ArcClone(n)

(***************************************************************************)
(* The recycle queues (crossbeam SegQueue: push at the back, pop at the    *)
(* front)                                                                  *)
(***************************************************************************)

Avail(lvl) == IF lvl = "Primary" THEN available_primary_command_buffers
              ELSE available_secondary_command_buffers

\* Faulty variant: both arms of the match select the primary queue.
ExistingLevelAlwaysPrimary(lvl) == "Primary"

\* The match of allocate() that selects `existing`: the level of the queue
\* popped for a request of level lvl.
ExistingLevel(lvl) == lvl

\* `existing` of allocate(): the queue of the requested level.
Existing(sp, lvl) == Avail(ExistingLevel(lvl))[sp]

\* Faulty variant: a stack, pop returns the element pushed last.
PopLast(q) == q[Len(q)]

\* existing.pop(): the element returned ...
PopValue(q) == Head(q)

\* Faulty variant: pop leaves the element in the queue.
PopKeeps(q) == q

\* ... and the queue it leaves.
PopRest(q) == Tail(q)

\* SegQueue::push.
Push(q, cmd) == Append(q, cmd)

\* Faulty variant: the arms of the match are swapped.
DropQueueSwapped(lvl) == IF lvl = "Primary" THEN "Secondary" ELSE "Primary"

\* The match of Drop: the level of the queue a handle of level lvl is pushed on.
DropQueue(lvl) == lvl

\* Faulty variant: Drop pushes on the sub-pool of the dropping thread.
DropPoolOfDropper(h, t) == IF per_thread[t] # 0 THEN per_thread[t] ELSE h.pool

\* The sub-pool whose queue Drop pushes on: self.pool.
DropPool(h, t) == h.pool

\* Faulty variant: the lookup never finds the thread's entry.
GetMisses(t) == 0

\* Faulty variant: the finished handle is given the level Primary.
InnerPrimary(h) == [h EXCEPT !.builder = FALSE, !.level = "Primary"]

\* into_alloc: `self.inner`, the StandardCommandPoolAlloc the builder wraps.
Inner(h) == [h EXCEPT !.builder = FALSE]

\* Faulty variant: the guard pool_lock is leaked, the Mutex stays locked.
UnlockForgotten(holder) == holder

\* Drop of the MutexGuard pool_lock: the Mutex has no holder.
Unlock(holder) == 0

\* Faulty variant: the drop waits for the native-pool lock of its sub-pool.
DropTakesPoolLock(h) == poolLock[h.pool] = 0

\* What Drop::drop waits for before it pushes: it calls no lock(), and
\* SegQueue::push does not block.
DropCanProceed(h) == TRUE

\* hashmap.get(&this_thread): the entry of the calling thread.
Get(t) == per_thread[t]

\* Faulty variants of the test below: `>` and `<=`.
RestNeededNever(len, count) == len > count
RestNeededAlways(len, count) == len <= count

\* `output.len() < command_buffer_count`: the request is not satisfied yet.
RestNeeded(len, count) == len < count

\* Faulty variant: the whole count is requested from the native pool again.
RemainderWhole(count, len) == count

\* command_buffer_count -= output.len() as u32
Remainder(count, len) == count - len

\* Faulty variant: the new builders are put in front of the recycled ones.
ExtendAtFront(out, new) == new \o out

\* The loop `for cmd in ..allocate_command_buffers(..)? { output.push(..) }`.
Extend(out, new) == out \o new

\* StandardCommandPoolBuilder { inner: StandardCommandPoolAlloc { cmd, pool, level, .. } }
Builder(cmd, sp, lvl, t) ==
    [cmd |-> cmd, pool |-> sp, level |-> lvl, builder |-> TRUE, thread |-> t]

(***************************************************************************)
(* The native layer (UnsafeCommandPool), at its boundary                   *)
(***************************************************************************)

\* Native handles that are not live (never created, or destroyed with their pool).
FreeCmds == {c \in Cmds : cmdPool[c] = 0}

RECURSIVE SmallestN(_, _)
SmallestN(S, n) ==
    IF n = 0 THEN << >>
    ELSE LET m == CHOOSE x \in S : \A y \in S : x <= y
         IN  << m >> \o SmallestN(S \ {m}, n - 1)

\* allocate_command_buffers, on success: n handles that are not live.
allocate_command_buffers(n) == SmallestN(FreeCmds, n)

\* Identities a new Arc<StandardCommandPoolPerThread> can get: the allocation of
\* a dropped one is reused only once no Weak points to it any more.
FreePools == {sp \in SubPools : subStrong[sp] = 0 /\ \A k \in Threads : per_thread[k] # sp}

\* Arc::new(StandardCommandPoolPerThread { .. }).
NewPool == CHOOSE sp \in FreePools : \A o \in FreePools : sp <= o

(***************************************************************************)
(* Queues after a sub-pool is dropped / a handle is pushed                 *)
(***************************************************************************)

\* Queue function of level lvl after the handle h is dropped by thread t and
\* the sub-pool h.pool is dropped with it when `dies`.
AvailAfterDrop(lvl, h, t, dies) ==
    LET pushed == IF DropQueue(h.level) = lvl
                  THEN [Avail(lvl) EXCEPT ![DropPool(h, t)] = Push(@, h.cmd)]
                  ELSE Avail(lvl)
    IN  IF dies THEN [pushed EXCEPT ![h.pool] = << >>] ELSE pushed

\* Per-native-handle bookkeeping f after the native pool of sub-pool sp is
\* destroyed with its handles (dflt: the value of a handle that does not exist).
AfterDestroy(f, sp, dies, dflt) ==
    IF dies THEN [c \in Cmds |-> IF cmdPool[c] = sp THEN dflt ELSE f[c]] ELSE f

\* History: the handle that sits alone at the front of a queue.
LoneAfterDrop(h, dies) ==
    IF dies THEN [lone EXCEPT ![h.pool] = [l \in Levels |-> 0]]
    ELSE IF Avail(h.level)[h.pool] = << >>
         THEN [lone EXCEPT ![h.pool][h.level] = h.cmd]
         ELSE lone

\* impl Drop for StandardCommandPoolAlloc, then the drop of its fields pool and
\* pool_parent, executed by thread t.
drop(h, t) ==
    LET dies       == ArcDrop(subStrong[h.pool]) = 0
        parentDies == ArcDrop(poolStrong) = 0
    IN  /\ available_primary_command_buffers' = AvailAfterDrop("Primary", h, t, dies)
        /\ available_secondary_command_buffers' = AvailAfterDrop("Secondary", h, t, dies)
        /\ lone' = LoneAfterDrop(h, dies)
        /\ subStrong' = [subStrong EXCEPT ![h.pool] = ArcDrop(@)]
        /\ poolStrong' = ArcDrop(poolStrong)
        /\ per_thread' = IF parentDies THEN [k \in Threads |-> 0] ELSE per_thread
        /\ reclaimedBy' = IF parentDies THEN "handle" ELSE reclaimedBy
        /\ droppedBy' = AfterDestroy([droppedBy EXCEPT ![h.cmd] = t], h.pool, dies, 0)
        /\ cmdLevel' = AfterDestroy(cmdLevel, h.pool, dies, "Primary")
        /\ cmdPool' = AfterDestroy(cmdPool, h.pool, dies, 0)
        /\ subOwner' = IF dies THEN [subOwner EXCEPT ![h.pool] = 0] ELSE subOwner

(***************************************************************************)
(* Initial state: Arc::new(StandardCommandPool::new(..)) held by thread 1  *)
(***************************************************************************)

Init ==
    /\ poolStrong = 1
    /\ callerRefs = [t \in Threads |-> IF t = 1 THEN 1 ELSE 0]
    /\ per_thread = [t \in Threads |-> 0]
    /\ perThreadLock = 0
    /\ subStrong = [sp \in SubPools |-> 0]
    /\ subOwner = [sp \in SubPools |-> 0]
    /\ poolLock = [sp \in SubPools |-> 0]
    /\ available_primary_command_buffers = [sp \in SubPools |-> << >>]
    /\ available_secondary_command_buffers = [sp \in SubPools |-> << >>]
    /\ cmdLevel = [c \in Cmds |-> "Primary"]
    /\ cmdPool = [c \in Cmds |-> 0]
    /\ handles = {}
    /\ pc = [t \in Threads |-> "idle"]
    /\ level = [t \in Threads |-> "Primary"]
    /\ requested = [t \in Threads |-> 0]
    /\ command_buffer_count = [t \in Threads |-> 0]
    /\ toVisit = [t \in Threads |-> {}]
    /\ per_thread_local = [t \in Threads |-> 0]
    /\ output = [t \in Threads |-> << >>]
    /\ err = [t \in Threads |-> FALSE]
    /\ nativeCreateCalled = [t \in Threads |-> FALSE]
    /\ nativeAllocCalled = [t \in Threads |-> FALSE]
    /\ nativeAllocCount = [t \in Threads |-> 0]
    /\ borrowed = [t \in Threads |-> 0]
    /\ droppedBy = [c \in Cmds |-> 0]
    /\ lone = [sp \in SubPools |-> [l \in Levels |-> 0]]
    /\ expect = [t \in Threads |-> 0]
    /\ reclaimedBy = "none"
    /\ staleAtLock = [t \in Threads |-> {}]
    /\ existingAtLookup = [t \in Threads |-> << >>]
    /\ created = [t \in Threads |-> FALSE]
    /\ unwound = [t \in Threads |-> {}]

frameVars == << command_buffer_count, toVisit, per_thread_local, output, err, expect >>

(***************************************************************************)
(* Callers' references to the registry                                     *)
(***************************************************************************)

\* A thread without a reference obtains one: Arc::clone of another owner's
\* Arc, or pool_weak.upgrade() while the registry is alive.
UpgradePool(t) ==
    /\ pc[t] = "idle"
    /\ callerRefs[t] = 0
    /\ PoolWeakResolves
    /\ poolStrong' = ArcClone(poolStrong)
    /\ callerRefs' = [callerRefs EXCEPT ![t] = 1]
    /\ UNCHANGED << historyVars, reclaimedBy, per_thread, perThreadLock, subPoolVars, queueVars, nativeVars,
                    handles, pc, argVars, frameVars, callFlagVars,
                    borrowed, droppedBy >>

\* drop(pool): the thread gives up its Arc<StandardCommandPool>; the registry
\* (and its map) is dropped with the last strong reference.
DropPoolRef(t) ==
    /\ pc[t] = "idle"
    /\ callerRefs[t] = 1
    /\ poolStrong' = ArcDrop(poolStrong)
    /\ callerRefs' = [callerRefs EXCEPT ![t] = 0]
    /\ per_thread' = IF ArcDrop(poolStrong) = 0 THEN [k \in Threads |-> 0] ELSE per_thread
    /\ reclaimedBy' = IF ArcDrop(poolStrong) = 0 THEN "caller" ELSE reclaimedBy
    /\ UNCHANGED << historyVars, perThreadLock, subPoolVars, queueVars, nativeVars,
                    handles, pc, argVars, frameVars, callFlagVars,
                    borrowed, droppedBy >>

(***************************************************************************)
(* allocate(&self, level, command_buffer_count)                            *)
(***************************************************************************)

\* The call: it needs an Arc<StandardCommandPool> to call through.  Its first
\* statement waits for the map lock; the arguments are not read before that and
\* are recorded when the lock is taken.
Call(t) ==
    /\ pc[t] = "idle"
    /\ callerRefs[t] = 1
    /\ pc' = [pc EXCEPT ![t] = "lock"]
    /\ UNCHANGED << historyVars, reclaimedBy, registryVars, subPoolVars, queueVars,
                    nativeVars, handles, argVars, frameVars, callFlagVars,
                    borrowed, droppedBy >>

\* self.per_thread.lock(): blocks while another thread holds the guard.  retain
\* is about to visit every entry of the map.
LockMap(t, lvl, n) ==
    /\ pc[t] = "lock"
    /\ level' = [level EXCEPT ![t] = lvl]
    /\ requested' = [requested EXCEPT ![t] = n]
    /\ command_buffer_count' = [command_buffer_count EXCEPT ![t] = n]
    /\ perThreadLock = 0
    /\ perThreadLock' = t
    /\ toVisit' = [toVisit EXCEPT ![t] = {k \in Threads : per_thread[k] # 0}]
    /\ staleAtLock' = [staleAtLock EXCEPT ![t] =
                          {k \in Threads : per_thread[k] # 0 /\ subStrong[per_thread[k]] = 0}]
    /\ pc' = [pc EXCEPT ![t] = "retain"]
    /\ UNCHANGED << existingAtLookup, created, unwound, reclaimedBy, poolStrong, callerRefs,
                    per_thread, subPoolVars, queueVars, nativeVars, handles,
                    per_thread_local, output, err, expect,
                    callFlagVars, borrowed, droppedBy >>

\* hashmap.retain(|_, w| w.upgrade().is_some()), one entry per step.
Retain(t) ==
    /\ pc[t] = "retain"
    /\ \E k \in toVisit[t] :
        /\ per_thread' = IF WeakResolves(per_thread[k]) THEN per_thread
                         ELSE [per_thread EXCEPT ![k] = 0]
        /\ toVisit' = [toVisit EXCEPT ![t] = @ \ {k}]
    /\ UNCHANGED << historyVars, reclaimedBy, poolStrong, callerRefs, perThreadLock, subPoolVars, queueVars,
                    nativeVars, handles, pc, argVars, command_buffer_count,
                    per_thread_local, output, err, expect, callFlagVars,
                    borrowed, droppedBy >>

\* hashmap.get(&this_thread).and_then(Weak::upgrade) is Some(entry).
ResolveLive(t) ==
    /\ pc[t] = "retain"
    /\ toVisit[t] = {}
    /\ WeakResolves(Get(t))
    /\ per_thread_local' = [per_thread_local EXCEPT ![t] = Get(t)]
    /\ subStrong' = [subStrong EXCEPT ![Get(t)] = ArcClone(@)]
    /\ expect' = [expect EXCEPT ![t] =
                     IF requested[t] = 1 THEN lone[Get(t)][level[t]] ELSE 0]
    /\ existingAtLookup' = [existingAtLookup EXCEPT ![t] = Existing(Get(t), level[t])]
    /\ pc' = [pc EXCEPT ![t] = "pop"]
    /\ UNCHANGED << staleAtLock, created, unwound, reclaimedBy, registryVars, subOwner, poolLock, queueVars, nativeVars,
                    handles, argVars, command_buffer_count, toVisit, output, err,
                    callFlagVars, borrowed, droppedBy >>

\* No live entry: UnsafeCommandPool::new succeeds, the sub-pool is created and a
\* Weak to it is inserted for this thread.  (With MaxPools sub-pools in
\* existence only the failing branch below remains.)
ResolveCreate(t) ==
    /\ pc[t] = "retain"
    /\ toVisit[t] = {}
    /\ ~WeakResolves(Get(t))
    /\ FreePools # {}
    /\ nativeCreateCalled' = [nativeCreateCalled EXCEPT ![t] = TRUE]
    /\ subStrong' = [subStrong EXCEPT ![NewPool] = Downgrade(1)]
    /\ subOwner' = [subOwner EXCEPT ![NewPool] = t]
    /\ per_thread' = [per_thread EXCEPT ![t] = NewPool]
    /\ per_thread_local' = [per_thread_local EXCEPT ![t] = NewPool]
    /\ existingAtLookup' = [existingAtLookup EXCEPT ![t] = << >>]
    /\ created' = [created EXCEPT ![t] = TRUE]
    /\ pc' = [pc EXCEPT ![t] = "pop"]
    /\ UNCHANGED << staleAtLock, unwound, reclaimedBy, poolStrong, callerRefs, perThreadLock, poolLock, queueVars,
                    nativeVars, handles, argVars, command_buffer_count, toVisit,
                    output, err, expect, nativeAllocCalled, nativeAllocCount,
                    borrowed, droppedBy >>

\* No live entry and UnsafeCommandPool::new fails with OomError: `?` returns.
ResolveCreateOom(t) ==
    /\ pc[t] = "retain"
    /\ toVisit[t] = {}
    /\ ~WeakResolves(Get(t))
    /\ nativeCreateCalled' = [nativeCreateCalled EXCEPT ![t] = TRUE]
    /\ err' = [err EXCEPT ![t] = TRUE]
    /\ pc' = [pc EXCEPT ![t] = "ret"]
    /\ UNCHANGED << historyVars, reclaimedBy, registryVars, subPoolVars, queueVars, nativeVars, handles,
                    argVars, command_buffer_count, toVisit, per_thread_local,
                    output, expect, nativeAllocCalled, nativeAllocCount,
                    borrowed, droppedBy >>

\* One iteration of the pop loop that finds a recycled handle.
Pop(t) ==
    LET sp  == per_thread_local[t]
        ql  == ExistingLevel(level[t])
        q   == Existing(sp, level[t])
        cmd == PopValue(q)
    IN  /\ pc[t] = "pop"
        /\ Len(output[t]) < command_buffer_count[t]
        /\ q # << >>
        /\ available_primary_command_buffers' =
              IF ql = "Primary"
              THEN [available_primary_command_buffers EXCEPT ![sp] = PopRest(q)]
              ELSE available_primary_command_buffers
        /\ available_secondary_command_buffers' =
              IF ql = "Secondary"
              THEN [available_secondary_command_buffers EXCEPT ![sp] = PopRest(q)]
              ELSE available_secondary_command_buffers
        /\ lone' = [lone EXCEPT ![sp][ql] = 0]
        /\ output' = [output EXCEPT ![t] = Append(@, Builder(cmd, sp, level[t], t))]
        /\ subStrong' = [subStrong EXCEPT ![sp] = ArcClone(@)]
        /\ poolStrong' = PoolParentClone(poolStrong)
        /\ UNCHANGED << historyVars, reclaimedBy, callerRefs, per_thread, perThreadLock, subOwner, poolLock,
                        nativeVars, handles, pc, argVars, command_buffer_count,
                        toVisit, per_thread_local, err, expect, callFlagVars,
                        borrowed, droppedBy >>

\* The pop loop ends (count iterations done, or pop() returned None), then the
\* test `output.len() < command_buffer_count`.
PopDone(t) ==
    /\ pc[t] = "pop"
    /\ ~(Len(output[t]) < command_buffer_count[t]
         /\ Existing(per_thread_local[t], level[t]) # << >>)
    /\ pc' = [pc EXCEPT ![t] =
                 IF RestNeeded(Len(output[t]), command_buffer_count[t])
                 THEN "lock_pool" ELSE "ret"]
    /\ UNCHANGED << historyVars, reclaimedBy, registryVars, subPoolVars, queueVars, nativeVars, handles,
                    argVars, frameVars, callFlagVars, borrowed, droppedBy >>

\* per_thread.pool.lock(), then command_buffer_count -= output.len() as u32
\* (reached only with output.len() < command_buffer_count: the u32 cannot wrap).
LockPool(t) ==
    /\ pc[t] = "lock_pool"
    /\ poolLock[per_thread_local[t]] = 0
    /\ poolLock' = [poolLock EXCEPT ![per_thread_local[t]] = t]
    /\ command_buffer_count' =
          [command_buffer_count EXCEPT ![t] = Remainder(@, Len(output[t]))]
    /\ pc' = [pc EXCEPT ![t] = "native"]
    /\ UNCHANGED << historyVars, reclaimedBy, registryVars, subStrong, subOwner, queueVars, nativeVars,
                    handles, argVars, toVisit, per_thread_local, output, err,
                    expect, callFlagVars, borrowed, droppedBy >>

\* n clones of self for the pool_parent fields of n new handles.
RECURSIVE PoolParentCloneN(_, _)
PoolParentCloneN(k, n) == IF k = 0 THEN n ELSE PoolParentCloneN(k - 1, PoolParentClone(n))

\* allocate_command_buffers succeeds: each new native handle becomes a builder;
\* pool_lock is released at the end of the block.  (With fewer than n of the
\* MaxCmds native handles left only the failing branch below remains.)
NativeOk(t) ==
    LET sp   == per_thread_local[t]
        n    == command_buffer_count[t]
        cmds == allocate_command_buffers(n)
    IN  /\ pc[t] = "native"
        /\ Cardinality(FreeCmds) >= n
        /\ nativeAllocCalled' = [nativeAllocCalled EXCEPT ![t] = TRUE]
        /\ nativeAllocCount' = [nativeAllocCount EXCEPT ![t] = n]
        /\ cmdLevel' = [c \in Cmds |-> IF c \in Range(cmds) THEN level[t] ELSE cmdLevel[c]]
        /\ cmdPool' = [c \in Cmds |-> IF c \in Range(cmds) THEN sp ELSE cmdPool[c]]
        /\ output' = [output EXCEPT ![t] =
                         Extend(@, [i \in 1..n |-> Builder(cmds[i], sp, level[t], t)])]
        /\ subStrong' = [subStrong EXCEPT ![sp] = @ + n]
        /\ poolStrong' = PoolParentCloneN(n, poolStrong)
        /\ poolLock' = [poolLock EXCEPT ![sp] = Unlock(@)]
        /\ pc' = [pc EXCEPT ![t] = "ret"]
        /\ UNCHANGED << historyVars, reclaimedBy, callerRefs, per_thread, perThreadLock, subOwner,
                        queueVars, handles, argVars, command_buffer_count, toVisit,
                        per_thread_local, err, expect, nativeCreateCalled,
                        borrowed, droppedBy >>

\* allocate_command_buffers fails with OomError: `?` returns, the locals are
\* dropped in reverse order of declaration, pool_lock first.
NativeOom(t) ==
    /\ pc[t] = "native"
    /\ nativeAllocCalled' = [nativeAllocCalled EXCEPT ![t] = TRUE]
    /\ nativeAllocCount' = [nativeAllocCount EXCEPT ![t] = command_buffer_count[t]]
    /\ err' = [err EXCEPT ![t] = TRUE]
    /\ poolLock' = [poolLock EXCEPT ![per_thread_local[t]] = Unlock(@)]
    /\ pc' = [pc EXCEPT ![t] = IF output[t] = << >> THEN "ret" ELSE "unwind"]
    /\ UNCHANGED << historyVars, reclaimedBy, registryVars, subStrong, subOwner, queueVars, nativeVars,
                    handles, argVars, command_buffer_count, toVisit,
                    per_thread_local, output, expect, nativeCreateCalled,
                    borrowed, droppedBy >>

\* The error return drops `output`: each builder popped from the queue is dropped.
Unwind(t) ==
    /\ pc[t] = "unwind"
    /\ DropCanProceed(Head(output[t]))
    /\ drop(Head(output[t]), t)
    /\ output' = [output EXCEPT ![t] = Tail(@)]
    /\ unwound' = [unwound EXCEPT ![t] = @ \cup {Head(output[t]).cmd}]
    /\ pc' = [pc EXCEPT ![t] = IF Tail(output[t]) = << >> THEN "ret" ELSE "unwind"]
    /\ UNCHANGED << staleAtLock, existingAtLookup, created, callerRefs, perThreadLock, poolLock, handles, argVars,
                    command_buffer_count, toVisit, per_thread_local, err, expect,
                    callFlagVars, borrowed >>

\* The return: Ok(output.into_iter()) or the OomError (err) is handed to the
\* caller; the local Arc per_thread is dropped (the sub-pool with it when it was
\* the last strong reference), then the guard `hashmap`.
Ret(t) ==
    LET sp   == per_thread_local[t]
        dies == sp # 0 /\ ArcDrop(subStrong[sp]) = 0
    IN  /\ pc[t] = "ret"
        /\ subStrong' = IF sp # 0 THEN [subStrong EXCEPT ![sp] = ArcDrop(@)]
                        ELSE subStrong
        /\ subOwner' = IF dies THEN [subOwner EXCEPT ![sp] = 0] ELSE subOwner
        /\ available_primary_command_buffers' =
              IF dies THEN [available_primary_command_buffers EXCEPT ![sp] = << >>]
              ELSE available_primary_command_buffers
        /\ available_secondary_command_buffers' =
              IF dies THEN [available_secondary_command_buffers EXCEPT ![sp] = << >>]
              ELSE available_secondary_command_buffers
        /\ lone' = IF dies THEN [lone EXCEPT ![sp] = [l \in Levels |-> 0]] ELSE lone
        /\ cmdLevel' = AfterDestroy(cmdLevel, sp, dies, "Primary")
        /\ cmdPool' = AfterDestroy(cmdPool, sp, dies, 0)
        /\ droppedBy' = [c \in Cmds |->
                            IF (dies /\ cmdPool[c] = sp)
                               \/ c \in {output[t][i].cmd : i \in 1..Len(output[t])}
                            THEN 0 ELSE droppedBy[c]]
        /\ perThreadLock' = 0
        /\ handles' = handles \cup Range(output[t])
        /\ pc' = [pc EXCEPT ![t] = "idle"]
        /\ level' = [level EXCEPT ![t] = "Primary"]
        /\ requested' = [requested EXCEPT ![t] = 0]
        /\ command_buffer_count' = [command_buffer_count EXCEPT ![t] = 0]
        /\ per_thread_local' = [per_thread_local EXCEPT ![t] = 0]
        /\ output' = [output EXCEPT ![t] = << >>]
        /\ err' = [err EXCEPT ![t] = FALSE]
        /\ expect' = [expect EXCEPT ![t] = 0]
        /\ nativeCreateCalled' = [nativeCreateCalled EXCEPT ![t] = FALSE]
        /\ nativeAllocCalled' = [nativeAllocCalled EXCEPT ![t] = FALSE]
        /\ nativeAllocCount' = [nativeAllocCount EXCEPT ![t] = 0]
        /\ staleAtLock' = [staleAtLock EXCEPT ![t] = {}]
        /\ existingAtLookup' = [existingAtLookup EXCEPT ![t] = << >>]
        /\ unwound' = [unwound EXCEPT ![t] = {}]
        /\ UNCHANGED << created, reclaimedBy, poolStrong, callerRefs, per_thread, poolLock, toVisit,
                        borrowed >>

(***************************************************************************)
(* Handles                                                                 *)
(***************************************************************************)

\* A builder is used by the thread that allocated it only; a finished
\* StandardCommandPoolAlloc is Send + Sync and may be used by any thread.
MayUse(t, h) ==
    /\ pc[t] = "idle"
    /\ h.builder => h.thread = t
    /\ \A u \in Threads : borrowed[u] # h.cmd

\* StandardCommandPoolBuilder::into_alloc.
into_alloc(t) ==
    \E h \in handles :
        /\ MayUse(t, h)
        /\ h.builder
        /\ handles' = (handles \ {h}) \cup {Inner(h)}
        /\ UNCHANGED << historyVars, reclaimedBy, registryVars, subPoolVars, queueVars, nativeVars, pc,
                        argVars, frameVars, callFlagVars, borrowed, droppedBy >>

\* Thread t drops handle h, which it owns.
DropOf(t, h) ==
    /\ MayUse(t, h)
    /\ DropCanProceed(h)
    /\ drop(h, t)
    /\ handles' = handles \ {h}
    /\ UNCHANGED << historyVars, callerRefs, perThreadLock, poolLock, pc, argVars,
                    frameVars, callFlagVars, borrowed >>

\* A caller drops a handle it owns.
DropHandle(t) == \E h \in handles : DropOf(t, h)

\* StandardCommandPoolAlloc::queue_family: self.pool.pool.lock() ...
queue_family(t) ==
    \E h \in handles :
        /\ MayUse(t, h)
        /\ poolLock[h.pool] = 0
        /\ poolLock' = [poolLock EXCEPT ![h.pool] = t]
        /\ borrowed' = [borrowed EXCEPT ![t] = h.cmd]
        /\ pc' = [pc EXCEPT ![t] = "queue_family"]
        /\ UNCHANGED << historyVars, reclaimedBy, registryVars, subStrong, subOwner, queueVars, nativeVars,
                        handles, argVars, frameVars, callFlagVars, droppedBy >>

\* ... and the guard is dropped at the end of the statement.
queue_family_unlock(t) ==
    /\ pc[t] = "queue_family"
    /\ poolLock' = [sp \in SubPools |-> IF poolLock[sp] = t THEN 0 ELSE poolLock[sp]]
    /\ borrowed' = [borrowed EXCEPT ![t] = 0]
    /\ pc' = [pc EXCEPT ![t] = "idle"]
    /\ UNCHANGED << historyVars, reclaimedBy, registryVars, subStrong, subOwner, queueVars, nativeVars,
                    handles, argVars, frameVars, callFlagVars, droppedBy >>

(***************************************************************************)
(* Specification                                                           *)
(***************************************************************************)

Next ==
    \E t \in Threads :
        \/ UpgradePool(t)
        \/ DropPoolRef(t)
        \/ Call(t)
        \/ \E lvl \in Levels, n \in 0..MaxCount : LockMap(t, lvl, n)
        \/ Retain(t)
        \/ ResolveLive(t)
        \/ ResolveCreate(t)
        \/ ResolveCreateOom(t)
        \/ Pop(t)
        \/ PopDone(t)
        \/ LockPool(t)
        \/ NativeOk(t)
        \/ NativeOom(t)
        \/ Unwind(t)
        \/ Ret(t)
        \/ into_alloc(t)
        \/ DropHandle(t)
        \/ queue_family(t)
        \/ queue_family_unlock(t)

Spec == Init /\ [][Next]_vars

\* A step of thread t inside allocate() that waits for no lock.
AllocStep(t) ==
    \/ Retain(t)
    \/ ResolveLive(t)
    \/ ResolveCreate(t)
    \/ ResolveCreateOom(t)
    \/ Pop(t)
    \/ PopDone(t)
    \/ NativeOk(t)
    \/ NativeOom(t)
    \/ Unwind(t)
    \/ Ret(t)

\* A step of thread t that takes a lock: the map lock or a native-pool lock.
LockStep(t) ==
    \/ \E lvl \in Levels, n \in 0..MaxCount : LockMap(t, lvl, n)
    \/ LockPool(t)

\* Scheduling: a running thread keeps running, so a call that waits for no lock
\* takes its next step, each native call returns, and queue_family releases its
\* guard; a Mutex is granted fairly, so a thread that waits for a lock that is
\* free again and again obtains it.
Fairness ==
    \A t \in Threads :
        /\ WF_vars(AllocStep(t) \/ queue_family_unlock(t))
        /\ SF_vars(LockStep(t))

FairSpec == Spec /\ Fairness

TypeOK ==
    /\ poolStrong \in 0..(NumThreads + MaxCmds)
    /\ callerRefs \in [Threads -> 0..1]
    /\ per_thread \in [Threads -> 0..MaxPools]
    /\ perThreadLock \in 0..NumThreads
    /\ subStrong \in [SubPools -> 0..(MaxCmds + 1)]
    /\ subOwner \in [SubPools -> 0..NumThreads]
    /\ poolLock \in [SubPools -> 0..NumThreads]
    /\ cmdPool \in [Cmds -> 0..MaxPools]
    /\ handles \subseteq HandleRecs
    /\ \A t \in Threads : Range(output[t]) \subseteq HandleRecs

(***************************************************************************)
(* Properties                                                              *)
(***************************************************************************)

\* Native handles of the builders in the output Vec of thread t.
OutputCmds(t) == [i \in 1..Len(output[t]) |-> output[t][i].cmd]

\* Every entry of every recycle queue, as << sub-pool, level, position >>.
QueueSlots ==
    {<< sp, lvl, i >> : sp \in SubPools, lvl \in Levels, i \in 1..MaxCmds} \cap
    {x \in SubPools \X Levels \X (1..MaxCmds) : x[3] <= Len(Avail(x[2])[x[1]])}

SlotCmd(x) == Avail(x[2])[x[1]][x[3]]

\* C1: while a builder or a finished handle exists, the registry is alive (a
\* Weak to it resolves) and so are the handle's origin sub-pool and the native
\* pool its native handle belongs to, whatever the callers did with their own
\* references to the registry.
C1_HandlesKeepAlive ==
    \A h \in AllHandles :
        /\ PoolWeakResolves
        /\ WeakResolves(h.pool)
        /\ cmdPool[h.cmd] = h.pool

\* C1 witness: a handle is outstanding, no caller owns a reference to the
\* registry any more, and the registry is alive.
C1_Witness ==
    /\ handles # {}
    /\ \A t \in Threads : callerRefs[t] = 0
    /\ PoolWeakResolves

\* C2: only callers' references and handles hold the registry, and only
\* handles and running allocate() calls hold a sub-pool: with no caller
\* reference and no handle left the registry is reclaimed (a Weak to it does not
\* resolve), and a sub-pool no handle and no running call refers to is
\* reclaimed, although the map may still have an entry for it.
C2_NoRetentionCycle ==
    /\ ((\A t \in Threads : callerRefs[t] = 0) /\ AllHandles = {}) => ~PoolWeakResolves
    /\ \A sp \in SubPools :
          ((\A h \in AllHandles : h.pool # sp) /\ (\A t \in Threads : per_thread_local[t] # sp))
              => ~WeakResolves(sp)

\* C2 witness: the registry was reclaimed by the drop of the last handle, after
\* every caller had dropped its reference.
C2_Witness ==
    /\ reclaimedBy = "handle"
    /\ ~PoolWeakResolves
    /\ handles = {}

\* C3: allocate() is about to return either Ok with exactly the requested
\* number of builders or the OomError with no builder left in `output`.
C3_AllOrNothing ==
    \A t \in Threads :
        pc[t] = "ret" =>
            IF err[t] THEN output[t] = << >> ELSE Len(output[t]) = requested[t]

\* C3 witness: allocate() returns the OomError of the native allocation after it
\* had popped at least one recycled handle.
C3_Witness ==
    \E t \in Threads :
        /\ pc[t] = "ret"
        /\ err[t]
        /\ nativeAllocCalled[t]
        /\ nativeAllocCount[t] < requested[t]

\* C4: a native handle stays with the sub-pool of the thread that allocated it:
\* every handle was returned to the thread that owns its sub-pool, every queue
\* holds only native handles of its own sub-pool (whichever thread dropped
\* them), and a sub-pool's queues are popped only by calls of its owner thread.
C4_OriginThread ==
    /\ \A h \in AllHandles : subOwner[h.pool] = h.thread /\ cmdPool[h.cmd] = h.pool
    /\ \A x \in QueueSlots : cmdPool[SlotCmd(x)] = x[1]
    /\ \A t \in Threads :
          per_thread_local[t] # 0 => subOwner[per_thread_local[t]] = t

\* C4 witness: allocate() on a thread returns a native handle that another
\* thread had dropped.
C4_Witness ==
    \E t \in Threads :
        /\ pc[t] = "ret"
        /\ \E i \in 1..Len(output[t]) : droppedBy[output[t][i].cmd] \notin {0, t}

\* C5: existing handles hold pairwise distinct native handles, none of which is
\* in a recycle queue, and no native handle is in the recycle queues twice.
C5_Distinct ==
    /\ \A h1, h2 \in handles : h1.cmd = h2.cmd => h1 = h2
    /\ \A t \in Threads : \A i, j \in 1..Len(output[t]) :
          output[t][i].cmd = output[t][j].cmd => i = j
    /\ \A t \in Threads : \A i \in 1..Len(output[t]) :
          /\ \A h \in handles : h.cmd # output[t][i].cmd
          /\ \A u \in Threads \ {t} : \A j \in 1..Len(output[u]) :
                output[u][j].cmd # output[t][i].cmd
    /\ \A x, y \in QueueSlots : SlotCmd(x) = SlotCmd(y) => x = y
    /\ \A x \in QueueSlots : \A h \in AllHandles : h.cmd # SlotCmd(x)

\* C5 witness: a call returns a recycled native handle while another handle is
\* outstanding.
C5_Witness ==
    \E t \in Threads :
        /\ pc[t] = "ret"
        /\ output[t] # << >>
        /\ droppedBy[output[t][1].cmd] # 0
        /\ handles # {}

\* C6: no thread holds the mapping lock while it is inside the native
\* batch allocation (where it also holds the sub-pool's native-pool lock).
C6_MapLockFreeDuringNative ==
    \A t \in Threads : pc[t] = "native" => perThreadLock # t

\* C7: a queue holds only native handles of its level, a handle's level is the
\* level of its native handle, and the builders of a call have the level the
\* call asked for.
C7_LevelIsolation ==
    /\ \A x \in QueueSlots : cmdLevel[SlotCmd(x)] = x[2]
    /\ \A h \in AllHandles : h.level = cmdLevel[h.cmd]
    /\ \A t \in Threads : \A i \in 1..Len(output[t]) : output[t][i].level = level[t]

\* C7 witness: a call returns a recycled handle while the queue of the other
\* level of the same sub-pool is not empty.
C7_Witness ==
    \E t \in Threads :
        /\ pc[t] = "ret"
        /\ output[t] # << >>
        /\ ~nativeAllocCalled[t]
        /\ \E lvl \in Levels \ {level[t]} : Avail(lvl)[per_thread_local[t]] # << >>

\* C8: an allocate(L, 1) that finds the live sub-pool of its thread with a
\* handle that was dropped on the then empty queue L returns exactly that
\* native handle and does not call the native allocator.
C8_Reuse ==
    \A t \in Threads :
        (pc[t] = "ret" /\ expect[t] # 0) =>
            /\ ~err[t]
            /\ OutputCmds(t) = << expect[t] >>
            /\ ~nativeAllocCalled[t]

\* C8 witness: such a call returns while another handle of the sub-pool is
\* retained.
C8_Witness ==
    \E t \in Threads :
        /\ pc[t] = "ret"
        /\ expect[t] # 0
        /\ \E h \in handles : h.pool = per_thread_local[t]

\* C9 as claimed: with two or more retired handles in the queue, allocate(L, 1)
\* pops the one pushed last.
C9_PopsMostRecent ==
    [][\A t \in Threads :
          (/\ pc[t] = "pop"
           /\ requested[t] = 1
           /\ output'[t] # output[t]
           /\ Len(Avail(level[t])[per_thread_local[t]]) >= 2)
          => output'[t][1].cmd =
                Avail(level[t])[per_thread_local[t]][Len(Avail(level[t])[per_thread_local[t]])]]_vars

\* C9, amended: with two or more retired handles in the queue, allocate(L, 1)
\* pops the one pushed first, and the later ones stay in the queue in order.
C9_PopsOldest ==
    [][\A t \in Threads :
          (/\ pc[t] = "pop"
           /\ requested[t] = 1
           /\ output'[t] # output[t]
           /\ Len(Avail(level[t])[per_thread_local[t]]) >= 2)
          => /\ output'[t][1].cmd = Avail(level[t])[per_thread_local[t]][1]
             /\ Avail(level[t])'[per_thread_local[t]] =
                   SubSeq(Avail(level[t])[per_thread_local[t]], 2,
                          Len(Avail(level[t])[per_thread_local[t]]))]_vars

\* C9 witness: an allocate(L, 1) has popped a handle and left one in the queue.
C9_Witness ==
    \E t \in Threads :
        /\ pc[t] = "pop"
        /\ requested[t] = 1
        /\ Len(output[t]) = 1
        /\ Avail(level[t])[per_thread_local[t]] # << >>

\* C10 as claimed: allocate(level, 0) returns Ok with no builder and has called
\* neither UnsafeCommandPool::new nor allocate_command_buffers.
C10_ZeroNoNativeCall ==
    \A t \in Threads :
        (pc[t] = "ret" /\ requested[t] = 0) =>
            /\ ~err[t]
            /\ output[t] = << >>
            /\ ~nativeCreateCalled[t]
            /\ ~nativeAllocCalled[t]

\* C10, amended: allocate(level, 0) returns no builder and never calls
\* allocate_command_buffers; it calls UnsafeCommandPool::new exactly when the
\* map has no live entry for the calling thread, and returns the OomError only
\* when that call fails.
C10_ZeroNoNativeAlloc ==
    /\ [](\A t \in Threads :
            (pc[t] = "ret" /\ requested[t] = 0) =>
                /\ output[t] = << >>
                /\ ~nativeAllocCalled[t]
                /\ err[t] => nativeCreateCalled[t])
    /\ [][\A t \in Threads :
            (pc[t] = "retain" /\ pc'[t] # "retain" /\ requested[t] = 0) =>
                (nativeCreateCalled'[t] <=>
                    ~(per_thread[t] # 0 /\ subStrong[per_thread[t]] > 0))]_vars

\* C10 witness: an allocate(level, 0) on a thread without live sub-pool returns
\* Ok after it created a native pool.
C10_Witness ==
    \E t \in Threads :
        /\ pc[t] = "ret"
        /\ requested[t] = 0
        /\ nativeCreateCalled[t]
        /\ ~err[t]

\* A native handle that was dropped since it was created: a recycled one.
Recycled(c) == droppedBy[c] # 0

\* C11: in the output Vec of a call no freshly allocated native handle comes
\* before a recycled one.
C11_RecycledFirst ==
    \A t \in Threads : \A i, j \in 1..Len(output[t]) :
        (i < j /\ Recycled(output[t][j].cmd)) => Recycled(output[t][i].cmd)

\* C11 witness: a call returns a recycled handle followed by a fresh one.
C11_Witness ==
    \E t \in Threads :
        /\ pc[t] = "ret"
        /\ ~err[t]
        /\ Len(output[t]) = 2
        /\ Recycled(output[t][1].cmd)
        /\ ~Recycled(output[t][2].cmd)

\* hashmap.retain has visited every entry of the call of thread t.
PurgeDone(t) ==
    \/ pc[t] = "retain" /\ toVisit[t] = {}
    \/ pc[t] \in {"pop", "lock_pool", "native", "unwind", "ret"}

\* C12: once a call has purged the map, no other thread whose sub-pool was
\* already unreferenced when the call took the map lock has an entry; and each
\* step of the purge removes the visited entry exactly when its Weak does not
\* resolve, leaving every other entry alone.
C12_StalePurged ==
    /\ [](\A t \in Threads : PurgeDone(t) =>
              \A k \in staleAtLock[t] \ {t} : per_thread[k] = 0)
    /\ [][\A t \in Threads : \A k \in toVisit[t] \ toVisit'[t] :
              pc[t] = "retain" =>
                 /\ per_thread'[k] = IF subStrong[per_thread[k]] > 0
                                     THEN per_thread[k] ELSE 0
                 /\ \A j \in Threads \ {k} : per_thread'[j] = per_thread[j]]_vars

\* C12 witness: a call has purged the entry of another thread whose sub-pool was
\* dead when the call began.
C12_Witness ==
    \E t \in Threads : \E k \in staleAtLock[t] \ {t} :
        /\ PurgeDone(t)
        /\ per_thread[k] = 0

\* A sub-pool is created for thread t in this step.
CreatedFor(t) ==
    \E sp \in SubPools : subStrong[sp] = 0 /\ subStrong'[sp] > 0 /\ subOwner'[sp] = t

\* C13 as stated: a sub-pool is created for a thread only if none was ever
\* created for that thread before.
C13_CreatedOnce ==
    [][\A t \in Threads : CreatedFor(t) => ~created[t]]_vars

\* C13: a thread that never created a sub-pool has neither an entry nor a
\* sub-pool; every live sub-pool is the one its creator's entry points to, so a
\* thread has at most one live sub-pool; and a sub-pool is created only by its
\* thread's own call, after the purge, when the thread's entry does not resolve.
C13_OneLivePerThread ==
    /\ [](/\ \A t \in Threads : ~created[t] =>
                 /\ per_thread[t] = 0
                 /\ \A sp \in SubPools : subOwner[sp] # t
          /\ \A sp \in SubPools : subStrong[sp] > 0 =>
                 /\ subOwner[sp] \in Threads
                 /\ per_thread[subOwner[sp]] = sp)
    /\ [][\A t \in Threads : CreatedFor(t) =>
              /\ pc[t] = "retain" /\ toVisit[t] = {}
              /\ ~(per_thread[t] # 0 /\ subStrong[per_thread[t]] > 0)
              /\ subStrong[per_thread'[t]] = 0 /\ subStrong'[per_thread'[t]] > 0]_vars

\* C13 witness: a thread whose own entry was dead when it took the map lock has
\* created another sub-pool.
C13_Witness ==
    \E t \in Threads :
        /\ t \in staleAtLock[t]
        /\ nativeCreateCalled[t]
        /\ per_thread_local[t] # 0
        /\ per_thread[t] = per_thread_local[t]

\* C14: a handle that a thread is free to drop can be dropped in one step,
\* whoever holds the map lock and the native-pool locks; so can each builder an
\* unwinding call is dropping.
C14_DropNeverBlocks ==
    /\ \A t \in Threads : \A h \in handles : MayUse(t, h) => ENABLED DropOf(t, h)
    /\ \A t \in Threads : pc[t] = "unwind" => ENABLED Unwind(t)

\* C14 witness: a thread is free to drop a handle of a sub-pool while another
\* thread, inside the native allocation, holds both the map lock and that
\* sub-pool's native-pool lock.
C14_Witness ==
    \E t, u \in Threads : \E h \in handles :
        /\ t # u
        /\ pc[u] = "native"
        /\ perThreadLock = u
        /\ poolLock[h.pool] = u
        /\ MayUse(t, h)

Min(a, b) == IF a < b THEN a ELSE b

\* The call of thread t has resolved its sub-pool.
LookedUp(t) == per_thread_local[t] # 0

\* Number of handles the call of thread t has popped, once its pop loop is over.
Popped(t) ==
    IF pc[t] \in {"lock_pool", "native"} THEN Len(output[t])
    ELSE IF nativeAllocCalled[t] THEN requested[t] - nativeAllocCount[t]
    ELSE Len(output[t])

\* C15 as stated: a successful call has popped exactly min(count, r) handles,
\* r being the number of handles in the queue when the call looked it up.
C15_PopsMinOfAvailable ==
    \A t \in Threads :
        (pc[t] = "ret" /\ ~err[t] /\ LookedUp(t)) =>
            Popped(t) = Min(requested[t], Len(existingAtLookup[t]))

\* C15: a call pops at least min(count, r) and at most count handles; it takes
\* the native-pool lock and calls the native allocator only with fewer than
\* count popped, at most once, for exactly count minus the number popped, a
\* value in 1..count; with r >= count neither the lock nor the allocator is
\* touched.
C15_RecycleFirst ==
    \A t \in Threads :
        LET r == Len(existingAtLookup[t]) IN
        /\ Len(output[t]) <= requested[t]
        /\ (LookedUp(t) /\ pc[t] \in {"lock_pool", "native", "ret"} /\ ~err[t]) =>
              /\ Popped(t) >= Min(requested[t], r)
              /\ Popped(t) <= requested[t]
        /\ pc[t] \in {"lock_pool", "native"} => Len(output[t]) < requested[t]
        /\ pc[t] = "native" =>
              /\ ~nativeAllocCalled[t]
              /\ command_buffer_count[t] = requested[t] - Len(output[t])
              /\ command_buffer_count[t] \in 1..requested[t]
        /\ nativeAllocCalled[t] =>
              /\ pc[t] \in {"unwind", "ret"}
              /\ nativeAllocCount[t] \in 1..requested[t]
              /\ err[t] \/ Len(output[t]) = requested[t]
        /\ (LookedUp(t) /\ r >= requested[t]) =>
              /\ pc[t] \notin {"lock_pool", "native"}
              /\ ~nativeAllocCalled[t]
        /\ pc[t] # "native" => \A sp \in SubPools : poolLock[sp] = t => pc[t] = "queue_family"

\* C15 witness: a call for two handles popped one, which was pushed after the
\* call had looked up an empty queue, and obtained exactly one from the native
\* allocator.
C15_Witness ==
    \E t \in Threads :
        /\ pc[t] = "ret"
        /\ ~err[t]
        /\ requested[t] = 2
        /\ existingAtLookup[t] = << >>
        /\ nativeAllocCalled[t]
        /\ nativeAllocCount[t] = 1
        /\ Popped(t) = 1

\* Strong references to sub-pool sp: the `pool` field of every handle of it, and
\* the local Arc of a call that resolved it.
Holders(sp) ==
    Cardinality({h \in AllHandles : h.pool = sp})
        + Cardinality({t \in Threads : per_thread_local[t] = sp})

\* C16: the strong count of a sub-pool is the number of handles referencing it
\* plus the calls of its thread that have resolved it, so a sub-pool is alive
\* exactly while one of these exists; a dead sub-pool has empty queues and no
\* native handle; and the step that drops the last reference destroys the
\* queues' content and leaves the map entry in place while the registry lives.
C16_LifetimeByHandles ==
    /\ [](\A sp \in SubPools :
              /\ subStrong[sp] = Holders(sp)
              /\ \A t \in Threads : per_thread_local[t] = sp =>
                     subOwner[sp] = t /\ pc[t] \in {"pop", "lock_pool", "native", "unwind", "ret"}
              /\ subStrong[sp] = 0 =>
                     /\ available_primary_command_buffers[sp] = << >>
                     /\ available_secondary_command_buffers[sp] = << >>
                     /\ \A c \in Cmds : cmdPool[c] # sp)
    /\ [][\A sp \in SubPools : (subStrong[sp] > 0 /\ subStrong'[sp] = 0) =>
              /\ \A c \in Cmds : cmdPool[c] = sp => cmdPool'[c] = 0
              /\ PoolWeakResolves' =>
                    \A k \in Threads : per_thread[k] = sp => per_thread'[k] = sp]_vars

\* C16 witness: the registry is alive and the map still has the entry of a
\* thread whose sub-pool has been reclaimed, no call being in progress.
C16_Witness ==
    /\ PoolWeakResolves
    /\ \A t \in Threads : pc[t] = "idle"
    /\ \E k \in Threads : per_thread[k] # 0 /\ subStrong[per_thread[k]] = 0

\* C17: the sub-pool a call works with is alive and is the one the thread's
\* entry points to, and every builder in `output` carries a native handle of
\* that sub-pool's native pool; the lookup takes the entry exactly when it
\* resolves, and otherwise makes a sub-pool that did not exist, with empty
\* queues, and puts it in the thread's entry; a call that made its sub-pool
\* pops nothing and obtains the whole request from the native allocator.
C17_DeadEntryNotLive ==
    /\ [](\A t \in Threads : LookedUp(t) =>
              LET sp == per_thread_local[t] IN
              /\ subStrong[sp] > 0
              /\ per_thread[t] = sp
              /\ \A i \in 1..Len(output[t]) :
                     output[t][i].pool = sp /\ cmdPool[output[t][i].cmd] = sp
              /\ t \in staleAtLock[t] => nativeCreateCalled[t]
              /\ nativeCreateCalled[t] =>
                     /\ existingAtLookup[t] = << >>
                     /\ \A i \in 1..Len(output[t]) : ~Recycled(output[t][i].cmd)
                     /\ (pc[t] = "ret" /\ ~err[t] /\ requested[t] >= 1) =>
                            nativeAllocCalled[t] /\ nativeAllocCount[t] = requested[t])
    /\ [][\A t \in Threads : (pc[t] = "retain" /\ pc'[t] = "pop") =>
              LET live == per_thread[t] # 0 /\ subStrong[per_thread[t]] > 0
                  new  == per_thread_local'[t]
              IN  /\ nativeCreateCalled'[t] <=> ~live
                  /\ live => new = per_thread[t] /\ per_thread'[t] = per_thread[t]
                  /\ ~live =>
                        /\ new # per_thread[t]
                        /\ subStrong[new] = 0
                        /\ \A c \in Cmds : cmdPool[c] # new
                        /\ available_primary_command_buffers'[new] = << >>
                        /\ available_secondary_command_buffers'[new] = << >>
                        /\ per_thread'[t] = new]_vars

\* C17 witness: a call of a thread whose previous sub-pool had been reclaimed
\* is about to return handles of a new sub-pool, all from the native allocator.
C17_Witness ==
    \E t \in Threads :
        /\ t \in staleAtLock[t]
        /\ pc[t] = "ret"
        /\ ~err[t]
        /\ requested[t] >= 1
        /\ nativeCreateCalled[t]
        /\ nativeAllocCount[t] = requested[t]

\* The call of thread t is returning the OomError of the native allocation
\* after it had popped at least one handle.
FailedAfterPop(t) == pc[t] = "ret" /\ err[t] /\ unwound[t] # {}

\* The queues of level lvl after the step.
AvailNext(lvl) == IF lvl = "Primary" THEN available_primary_command_buffers'
                  ELSE available_secondary_command_buffers'

\* C18 as stated: when such a call returns, the queue holds the same set of
\* native handles as it held when the call looked it up.
C18_SameSetOnReturn ==
    [][\A t \in Threads : (FailedAfterPop(t) /\ pc'[t] = "idle") =>
           Range(AvailNext(level[t])[per_thread_local[t]]) = Range(existingAtLookup[t])]_vars

\* C18: when such a call has dropped its builders, every native handle it had
\* popped, and every handle that was in the queue at lookup, is in the same
\* sub-pool's queue of the same level; the call holds no builder and no
\* caller holds a handle with any of these native handles; the return hands the
\* caller no handle and leaves the queue as it is if a handle still references
\* the sub-pool, and otherwise reclaims the sub-pool, which no handle references.
C18_PoppedGoBack ==
    /\ [](\A t \in Threads : FailedAfterPop(t) =>
              LET sp == per_thread_local[t]
                  q  == Avail(level[t])[sp]
              IN  /\ output[t] = << >>
                  /\ Cardinality(unwound[t]) = requested[t] - nativeAllocCount[t]
                  /\ unwound[t] \cup Range(existingAtLookup[t]) \subseteq Range(q)
                  /\ \A c \in unwound[t] : cmdPool[c] = sp /\ cmdLevel[c] = level[t]
                  /\ \A h \in AllHandles : h.cmd \notin unwound[t])
    /\ [][\A t \in Threads : (FailedAfterPop(t) /\ pc'[t] = "idle") =>
              LET sp == per_thread_local[t] IN
              /\ handles' = handles
              /\ IF \E h \in handles : h.pool = sp
                 THEN AvailNext(level[t])[sp] = Avail(level[t])[sp]
                 ELSE subStrong'[sp] = 0]_vars

\* C18 witness: a failing call has put back the handle it had popped.
C18_Witness ==
    \E t \in Threads :
        /\ FailedAfterPop(t)
        /\ unwound[t] \subseteq Range(Avail(level[t])[per_thread_local[t]])
        /\ nativeAllocCalled[t]

\* The thread that holds the lock thread t is blocked on, 0 if t is not blocked.
WaitsFor(t) ==
    IF pc[t] = "lock" THEN perThreadLock
    ELSE IF pc[t] = "lock_pool" THEN poolLock[per_thread_local[t]]
    ELSE 0

\* Following the holders from thread t ends within n steps at a thread that is
\* not blocked.
RECURSIVE WaitEnds(_, _)
WaitEnds(t, n) ==
    IF WaitsFor(t) = 0 THEN TRUE
    ELSE IF n = 0 THEN FALSE
    ELSE WaitEnds(WaitsFor(t), n - 1)

\* C19: no thread is in a cycle of threads blocked on each other's locks; a
\* thread that holds a native-pool lock waits for no lock, and a call holds the
\* native-pool lock only while it holds the map lock; and every call that has
\* started returns.
C19_DeadlockFree ==
    /\ [](\A t \in Threads :
              /\ WaitEnds(t, NumThreads)
              /\ (\E sp \in SubPools : poolLock[sp] = t) =>
                     /\ pc[t] \in {"native", "queue_family"}
                     /\ pc[t] = "native" => perThreadLock = t
              /\ perThreadLock = t =>
                     pc[t] \in {"retain", "pop", "lock_pool", "native", "unwind", "ret"})
    /\ \A t \in Threads : (pc[t] = "lock") ~> (pc[t] = "idle")

\* C19 witness: a call holds the map lock and is blocked on the native-pool lock
\* held by a thread inside queue_family.
C19_Witness ==
    \E t, u \in Threads :
        /\ pc[t] = "lock_pool"
        /\ WaitsFor(t) = u
        /\ pc[u] = "queue_family"

\* C20: the builders in `output` all reference the sub-pool the call resolved;
\* a call about to return Ok for count >= 1 returns count builders of the
\* requested level and of that sub-pool, which is alive and is what the thread's
\* entry points to; the return hands them over as they are; and no step, in
\* particular into_alloc, changes the level or the sub-pool of a handle a caller
\* holds.
C20_LevelAndPoolFixed ==
    /\ [](\A t \in Threads :
              /\ \A i \in 1..Len(output[t]) : output[t][i].pool = per_thread_local[t]
              /\ (pc[t] = "ret" /\ ~err[t] /\ requested[t] >= 1) =>
                     /\ Len(output[t]) = requested[t]
                     /\ \A i \in 1..Len(output[t]) : output[t][i].level = level[t]
                     /\ per_thread[t] = per_thread_local[t]
                     /\ subStrong[per_thread[t]] > 0)
    /\ [][/\ \A t \in Threads : (pc[t] = "ret" /\ pc'[t] = "idle") =>
                 Range(output[t]) \subseteq handles'
          /\ \A h \in handles : \A g \in handles' :
                 g.cmd = h.cmd => g.level = h.level /\ g.pool = h.pool]_vars

\* C20 witness: a call for two Secondary handles is about to return a recycled
\* handle and a fresh one.
C20_Witness ==
    \E t \in Threads :
        /\ pc[t] = "ret"
        /\ ~err[t]
        /\ level[t] = "Secondary"
        /\ Len(output[t]) = 2
        /\ output[t][1].level = "Secondary"
        /\ output[t][2].level = "Secondary"
        /\ nativeAllocCalled[t]
        /\ Recycled(output[t][1].cmd)

====
